---- MODULE Spec2Model ----
(***************************************************************************)
(* A model of the medical appointment scheduling system: the patient       *)
(* identity lookup (utils/patient_manager.py), the booking write path      *)
(* (utils/excel_manager.py, utils/data_generator.py) and the form handler  *)
(* that drives them (app.py).                                              *)
(*                                                                         *)
(* Strings are sequences of one-character strings, so that lower-casing,   *)
(* whitespace splitting and character replacement are computed.  A data    *)
(* frame is a sequence of records (row order is file order).               *)
(***************************************************************************)
EXTENDS Integers, Sequences, FiniteSets, TLC

VARIABLES
    \* ---- the files (shared by every session) ----
    schedule,       \* doctor_schedule.xlsx : sequence of slot rows
    appointments,   \* appointments.xlsx    : sequence of appointment rows
    patients,       \* patients.csv         : sequence of patient rows
    \* ---- one browser session per element of Sessions ----
    pc,             \* where the session's script run stands
    form,           \* the widget values of the session's form
    local,          \* local variables of the running handler (data frames read, ...)
    session_state,  \* st.session_state: patient_data, form_submitted, appointment_booked
    shown,          \* what the last script run displayed (errors, success)
    \* ---- bookkeeping of the environment ----
    next_uuid,      \* source of fresh appointment ids (uuid4)
    faults,         \* storage failures injected so far
    history,        \* log of finished book_appointment calls (observation only)
    \* ---- identity resolver harness ----
    rq_name, rq_dob, rq_store, rq_result, rq_phase,
    \* ---- validation harness ----
    vf_form, vf_errors, vf_phase,
    \* ---- reminder harness ----
    now, rm_start, rm_jobs, rm_phase,
    \* ---- slot query harness ----
    q_doctor, q_date, q_result, q_phase,
    \* ---- daily report harness ----
    admin_report,   \* admin_report.xlsx : exists flag and sequence of report rows
    rp_date,        \* the report_date argument
    rp_before,      \* admin_report.xlsx before the first run (observation only)
    rp_once,        \* admin_report.xlsx after the first run (observation only)
    rp_phase

vars == <<schedule, appointments, patients, pc, form, local, session_state, shown,
          next_uuid, faults, history,
          rq_name, rq_dob, rq_store, rq_result, rq_phase,
          vf_form, vf_errors, vf_phase,
          now, rm_start, rm_jobs, rm_phase,
          q_doctor, q_date, q_result, q_phase,
          admin_report, rp_date, rp_before, rp_once, rp_phase>>

bookingVars == <<schedule, appointments, patients, pc, form, local, session_state, shown,
                 next_uuid, faults, history>>
resolverVars == <<rq_name, rq_dob, rq_store, rq_result, rq_phase>>
validateVars == <<vf_form, vf_errors, vf_phase>>
reminderVars == <<now, rm_start, rm_jobs, rm_phase>>
queryVars == <<q_doctor, q_date, q_result, q_phase>>
reportVars == <<admin_report, rp_date, rp_before, rp_once, rp_phase>>

-----------------------------------------------------------------------------
(* Strings as character sequences *)

RECURSIVE Concat(_)
\* the concatenation of a sequence of strings
Concat(ss) ==
    IF ss = <<>> THEN <<>> ELSE Head(ss) \o Concat(Tail(ss))

\* Python str.lower(), one character
lower_char(c) ==
    CASE c = "J" -> "j" [] c = "O" -> "o" [] c = "H" -> "h" [] c = "N" -> "n"
      [] c = "S" -> "s" [] c = "M" -> "m" [] c = "I" -> "i" [] c = "T" -> "t"
      [] c = "R" -> "r" [] c = "D" -> "d" [] c = "A" -> "a" [] c = "V" -> "v"
      [] c = "P" -> "p" [] c = "F" -> "f"
      [] OTHER -> c

\* Python str.lower()
lower(s) == [i \in 1..Len(s) |-> lower_char(s[i])]

\* the characters that \s matches and str.strip()/str.split() treat as whitespace
is_space(c) == c \in {" ", "\t"}

RECURSIVE lstrip(_)
lstrip(s) ==
    IF s # <<>> /\ is_space(Head(s)) THEN lstrip(Tail(s)) ELSE s

RECURSIVE rstrip(_)
rstrip(s) ==
    IF s # <<>> /\ is_space(s[Len(s)]) THEN rstrip(SubSeq(s, 1, Len(s) - 1)) ELSE s

\* Python str.strip()
strip(s) == rstrip(lstrip(s))

RECURSIVE collapse_ws(_)
\* re.sub(r'\s+', ' ', s): every maximal run of whitespace becomes one space
collapse_ws(s) ==
    IF s = <<>> THEN <<>>
    ELSE IF is_space(Head(s))
         THEN <<" ">> \o collapse_ws(lstrip(s))
         ELSE <<Head(s)>> \o collapse_ws(Tail(s))

RECURSIVE split_acc(_, _)
\* str.split() with no argument: the maximal runs of non-whitespace, in order
split_acc(s, cur) ==
    IF s = <<>> THEN (IF cur = <<>> THEN <<>> ELSE <<cur>>)
    ELSE IF is_space(Head(s))
         THEN (IF cur = <<>> THEN <<>> ELSE <<cur>>) \o split_acc(Tail(s), <<>>)
         ELSE split_acc(Tail(s), Append(cur, Head(s)))

split(s) == split_acc(s, <<>>)

RECURSIVE remove_char(_, _)
\* str.replace(c, '')
remove_char(s, c) ==
    IF s = <<>> THEN <<>>
    ELSE IF Head(s) = c THEN remove_char(Tail(s), c)
         ELSE <<Head(s)>> \o remove_char(Tail(s), c)

RECURSIVE join_space(_)
\* ' '.join(words)
join_space(words) ==
    IF words = <<>> THEN <<>>
    ELSE IF Len(words) = 1 THEN words[1]
         ELSE words[1] \o <<" ">> \o join_space(Tail(words))

\* set(seq)
to_set(seq) == {seq[i] : i \in 1..Len(seq)}

-----------------------------------------------------------------------------
(* utils/patient_manager.py *)

prefixes == {<<"m","r">>, <<"m","r","s">>, <<"m","s">>, <<"d","r">>, <<"p","r","o","f">>}
suffixes == {<<"j","r">>, <<"s","r">>, <<"i","i">>, <<"i","i","i">>, <<"i","v">>}

RECURSIVE clean_words(_)
\* the loop of normalize_name: strip '.' and ',' from each word, keep the word
\* (even when nothing is left of it) unless it is a prefix or a suffix
clean_words(words) ==
    IF words = <<>> THEN <<>>
    ELSE LET word_clean == remove_char(remove_char(Head(words), "."), ",")
         IN  (IF word_clean \notin prefixes /\ word_clean \notin suffixes
              THEN <<word_clean>> ELSE <<>>) \o clean_words(Tail(words))

\* PatientManager.normalize_name
normalize_name(name) ==
    IF name = <<>> THEN <<>>
    ELSE LET normalized == collapse_ws(lower(strip(name)))
             words      == split(normalized)
         IN  join_space(clean_words(words))

\* a partial test that is content with one common word
partial_name_match_one(name1, name2) ==
    Cardinality(to_set(split(name1)) \cap to_set(split(name2))) >= 1

\* PatientManager.partial_name_match
partial_name_match(name1, name2) ==
    LET words1 == to_set(split(name1))
        words2 == to_set(split(name2))
        common_words == words1 \cap words2
    IN  Cardinality(common_words) >= 2

(* A date string is its three digit groups (value v, written with w digits) and
   the separator between them; the empty string has no groups. *)
NoDate == <<>>

\* the formats parse_date tries, in this order
date_formats ==
    << [o |-> <<"m","d","Y">>, sep |-> "/"], [o |-> <<"m","d","Y">>, sep |-> "-"],
       [o |-> <<"m","d","Y">>, sep |-> "."],
       [o |-> <<"d","m","Y">>, sep |-> "/"], [o |-> <<"d","m","Y">>, sep |-> "-"],
       [o |-> <<"d","m","Y">>, sep |-> "."],
       [o |-> <<"Y","m","d">>, sep |-> "/"], [o |-> <<"Y","m","d">>, sep |-> "-"],
       [o |-> <<"Y","m","d">>, sep |-> "."],
       [o |-> <<"m","d","y">>, sep |-> "/"], [o |-> <<"m","d","y">>, sep |-> "-"],
       [o |-> <<"m","d","y">>, sep |-> "."],
       [o |-> <<"d","m","y">>, sep |-> "/"], [o |-> <<"d","m","y">>, sep |-> "-"],
       [o |-> <<"d","m","y">>, sep |-> "."] >>

\* what one strptime directive accepts
directive_ok(dir, fld) ==
    CASE dir = "m" -> fld.w \in {1, 2} /\ fld.v \in 1..12
      [] dir = "d" -> fld.w \in {1, 2} /\ fld.v \in 1..31
      [] dir = "Y" -> fld.w = 4 /\ fld.v >= 1
      [] dir = "y" -> fld.w = 2 /\ fld.v \in 0..99

\* the year a directive yields (%y: 00..68 -> 20xx, 69..99 -> 19xx)
directive_year(dir, fld) ==
    IF dir = "Y" THEN fld.v
    ELSE IF fld.v < 69 THEN 2000 + fld.v ELSE 1900 + fld.v

is_leap(y) == (y % 4 = 0 /\ y % 100 # 0) \/ y % 400 = 0

days_in_month(y, m) ==
    IF m \in {4, 6, 9, 11} THEN 30
    ELSE IF m = 2 THEN (IF is_leap(y) THEN 29 ELSE 28)
    ELSE 31

\* datetime.strptime(s, fmt).date(): the date <<year, month, day>>, or NoDate
\* where strptime raises ValueError
strptime(ds, fmt) ==
    IF Len(ds.f) # 3 \/ ds.sep # fmt.sep THEN NoDate
    ELSE IF \E i \in 1..3 : ~directive_ok(fmt.o[i], ds.f[i]) THEN NoDate
    ELSE LET pos(dir) == CHOOSE i \in 1..3 : fmt.o[i] = dir
             yd == IF \E i \in 1..3 : fmt.o[i] = "Y" THEN "Y" ELSE "y"
             y  == directive_year(yd, ds.f[pos(yd)])
             m  == ds.f[pos("m")].v
             d  == ds.f[pos("d")].v
         IN  IF d <= days_in_month(y, m) THEN <<y, m, d>> ELSE NoDate

RECURSIVE parse_from(_, _)
parse_from(ds, i) ==
    IF i > Len(date_formats) THEN NoDate
    ELSE IF strptime(ds, date_formats[i]) # NoDate THEN strptime(ds, date_formats[i])
    ELSE parse_from(ds, i + 1)

\* PatientManager.parse_date
parse_date(date_str) ==
    IF date_str.f = <<>> THEN NoDate ELSE parse_from(date_str, 1)

\* PatientManager.compare_dates
compare_dates(date1, date2) ==
    LET parsed_date1 == parse_date(date1)
        parsed_date2 == parse_date(date2)
    IN  IF parsed_date1 # NoDate /\ parsed_date2 # NoDate
        THEN parsed_date1 = parsed_date2
        ELSE FALSE

\* date.strftime('%m/%d/%Y')
strftime_mdY(date) ==
    [f |-> << [v |-> date[2], w |-> 2], [v |-> date[3], w |-> 2], [v |-> date[1], w |-> 4] >>,
     sep |-> "/"]

\* the rows of df, in file order, that satisfy the exact test of lookup_patient
exact_rows(df, name_clean, dob) ==
    {i \in 1..Len(df) : normalize_name(df[i].name) = name_clean
                        /\ compare_dates(df[i].DOB, dob)}

\* the rows of df that satisfy the partial test of lookup_patient
partial_rows(df, name_clean, dob) ==
    {i \in 1..Len(df) : partial_name_match(normalize_name(df[i].name), name_clean)
                        /\ compare_dates(df[i].DOB, dob)}

\* the first row of a non-empty set of row numbers
first_row(rows) == CHOOSE i \in rows : \A j \in rows : i <= j

\* a lookup that makes one pass and returns the first row that passes either test
lookup_patient_one_pass(df, name, dob) ==
    LET rows == exact_rows(df, normalize_name(name), dob)
                    \cup partial_rows(df, normalize_name(name), dob)
    IN  IF df = <<>> \/ rows = {} THEN 0 ELSE first_row(rows)

\* PatientManager.lookup_patient: the row number of the patient returned,
\* 0 for None
lookup_patient(df, name, dob) ==
    IF df = <<>> THEN 0
    ELSE LET name_clean == normalize_name(name)
         IN  IF exact_rows(df, name_clean, dob) # {}
             THEN first_row(exact_rows(df, name_clean, dob))
             ELSE IF partial_rows(df, name_clean, dob) # {}
             THEN first_row(partial_rows(df, name_clean, dob))
             ELSE 0

-----------------------------------------------------------------------------
(* Identity resolver harness: lookup_patient applied to one request *)

\* the date of birth "01/02/1980" and another one, "03/04/1975"
Dob1 == [f |-> << [v |-> 1, w |-> 2], [v |-> 2, w |-> 2], [v |-> 1980, w |-> 4] >>, sep |-> "/"]
Dob2 == [f |-> << [v |-> 3, w |-> 2], [v |-> 4, w |-> 2], [v |-> 1975, w |-> 4] >>, sep |-> "/"]

JohnSmith     == <<"J","o","h","n"," ","S","m","i","t","h">>
JohnAdamSmith == <<"J","o","h","n"," ","A","d","a","m"," ","S","m","i","t","h">>
JaneDoe       == <<"J","a","n","e"," ","D","o","e">>

PatientRow(id, name, dob, hist) ==
    [patient_id |-> id, name |-> name, DOB |-> dob, visit_history |-> hist]

\* patient stores that hold a patient named "John Smith" born on Dob1
ResolverStores ==
    { << PatientRow(1000, JohnSmith, Dob1, <<>>) >>,
      << PatientRow(1000, JaneDoe, Dob1, <<>>), PatientRow(1001, JohnSmith, Dob1, <<>>) >>,
      << PatientRow(1000, JohnSmith, Dob2, <<>>), PatientRow(1001, JohnSmith, Dob1, <<>>) >>,
      << PatientRow(1000, JohnSmith, Dob1, <<>>), PatientRow(1001, JohnAdamSmith, Dob1, <<>>) >>,
      << PatientRow(1000, JohnAdamSmith, Dob1, <<>>), PatientRow(1001, JohnSmith, Dob1, <<>>) >>,
      << PatientRow(1000, JohnAdamSmith, Dob2, <<>>), PatientRow(1001, JohnSmith, Dob1, <<>>) >> }

\* the ways of writing the parts of a variant of "John Smith"
FirstForms  == {<<"J","o","h","n">>, <<"j","o","h","n">>, <<"J","O","H","N">>}
LastForms   == {<<"S","m","i","t","h">>, <<"s","m","i","t","h">>, <<"S","M","I","T","H">>}
Honorifics  == {<<>>, <<"M","r"," ">>, <<"m","r","s","."," ">>, <<"D","r","."," "," ">>, <<"P","R","O","F"," ">>, <<"M","s",","," ">>}
Generations == {<<>>, <<" ","J","r",".">>, <<" ","s","r">>, <<" ","I","I","I">>, <<","," ","i","v">>, <<" ","I","I">>}
Attached    == {<<>>, <<".">>, <<",">>}
Gaps        == {<<" ">>, <<" "," "," ">>, <<"\t">>}
Margins     == {<<>>, <<" ">>}

\* names that differ from "John Smith" in letter case, whitespace, honorific,
\* generational suffix and '.'/',' attached to a word
AttachedVariants ==
    { Concat(<<lead, hon, first, p1, gap, last, p2, gen, trail>>) :
        lead \in Margins, hon \in Honorifics, first \in FirstForms, p1 \in Attached,
        gap \in Gaps, last \in LastForms, p2 \in Attached, gen \in Generations,
        trail \in Margins }

\* the same, with a '.' or ',' standing alone between the two words
LonePunctVariants ==
    { Concat(<<hon, first, gap, p, <<" ">>, last, gen>>) :
        hon \in Honorifics, first \in FirstForms, gap \in Gaps, p \in {<<".">>, <<",">>},
        last \in LastForms, gen \in Generations }

NameVariants == AttachedVariants \cup LonePunctVariants

\* resolve(name, dob)
Resolve ==
    /\ rq_phase = "ready"
    /\ rq_result' = lookup_patient(rq_store, rq_name, rq_dob)
    /\ rq_phase' = "done"
    /\ UNCHANGED <<rq_name, rq_dob, rq_store>>

\* requests that may find nothing: empty and blank names, a name that is only
\* an honorific, an unknown name; an empty, an impossible and a differently
\* written date of birth; an empty (or missing) patient file
MaryMajor == <<"M","a","r","y"," ","M","a","j","o","r">>
SoftNames == { <<>>, <<" ">>, <<"D","r",".">>, JohnSmith, JaneDoe, MaryMajor }
DobMonth13 == [f |-> << [v |-> 13, w |-> 2], [v |-> 32, w |-> 2], [v |-> 1980, w |-> 4] >>, sep |-> "/"]
DobFeb30   == [f |-> << [v |-> 2, w |-> 2], [v |-> 30, w |-> 2], [v |-> 1980, w |-> 4] >>, sep |-> "/"]
Dob1Iso    == [f |-> << [v |-> 1980, w |-> 4], [v |-> 1, w |-> 2], [v |-> 2, w |-> 2] >>, sep |-> "-"]
SoftDobs == { Dob1, Dob2, Dob1Iso, DobMonth13, DobFeb30, [f |-> <<>>, sep |-> ""] }

\* an exception inside lookup_patient that escapes to the caller
ResolveReadRaises ==
    /\ rq_phase = "ready"
    /\ rq_phase' = "raised"
    /\ UNCHANGED <<rq_name, rq_dob, rq_store, rq_result>>

\* pd.read_csv (or anything after it) raises inside lookup_patient: lines 46-48
\* catch the exception and return None
ResolveReadFails ==
    /\ rq_phase = "ready"
    /\ rq_result' = 0
    /\ rq_phase' = "done"
    /\ UNCHANGED <<rq_name, rq_dob, rq_store>>

\* requests and stores on which the two passes of lookup_patient differ: names
\* that match exactly, partially (words in another order, a middle name), with
\* one word only, with a '.' standing alone; stored dates that do not parse
SmithJohn    == <<"S","m","i","t","h"," ","J","o","h","n">>
JohnOnly     == <<"J","o","h","n">>
PassNames ==
    { JohnSmith, <<"j","o","h","n"," "," ","S","M","I","T","H">>, SmithJohn, JohnOnly,
      JohnAdamSmith, MaryMajor,
      <<"J","o","h","n"," ","."," ","S","m","i","t","h">>,
      <<","," ","J","o","h","n"," ","S","m","i","t","h">> }
PassStores ==
    ResolverStores \cup
    { << PatientRow(1000, JohnSmith, DobFeb30, <<>>), PatientRow(1001, JohnAdamSmith, Dob1, <<>>) >>,
      << PatientRow(1000, JohnOnly, Dob1, <<>>), PatientRow(1001, SmithJohn, Dob1Iso, <<>>) >> }

-----------------------------------------------------------------------------
(* app.py, main: validation of a submitted form (lines 245-274) *)

NoDoctorChoice    == "Select a doctor..."
NoInsuranceChoice == "Select your insurance..."
\* the time slot select box holds a slot's display text; the model names the
\* slot by its number and writes 0 for "Select a time slot..."
NoSlotChoice      == 0

name_error(f)      == f.full_name = <<>> \/ Len(strip(f.full_name)) < 2
phone_error(f)     == f.phone = <<>>
email_error(f)     == f.email = <<>> \/ "@" \notin to_set(f.email)
doctor_error(f)    == f.preferred_doctor = NoDoctorChoice
slot_error(f)      == f.selected_time_slot = NoSlotChoice
insurance_error(f) == f.insurance_provider = NoInsuranceChoice
member_error(f)    == f.member_id = <<>>

\* errors.append(msg) when cond holds
append_if(errors, cond, msg) == IF cond THEN Append(errors, msg) ELSE errors

\* a handler that stops at the first violated rule
validate_first_only(f) ==
    IF name_error(f) THEN <<"Please enter your full name">>
    ELSE IF phone_error(f) THEN <<"Please enter your phone number">>
    ELSE IF email_error(f) THEN <<"Please enter a valid email address">>
    ELSE IF doctor_error(f) THEN <<"Please select a preferred doctor">>
    ELSE IF slot_error(f) THEN <<"Please select an appointment time slot">>
    ELSE IF insurance_error(f) THEN <<"Please select your insurance provider">>
    ELSE IF member_error(f) THEN <<"Please enter your insurance member ID">>
    ELSE <<>>

\* the list `errors` the submit handler builds
validate(f) ==
    LET e1 == append_if(<<>>, name_error(f), "Please enter your full name")
        e2 == append_if(e1, phone_error(f), "Please enter your phone number")
        e3 == append_if(e2, email_error(f), "Please enter a valid email address")
        e4 == append_if(e3, doctor_error(f), "Please select a preferred doctor")
        e5 == append_if(e4, slot_error(f), "Please select an appointment time slot")
        e6 == append_if(e5, insurance_error(f), "Please select your insurance provider")
        e7 == append_if(e6, member_error(f), "Please enter your insurance member ID")
    IN  e7

(* Validation harness: one submitted form, validated *)

ValidName   == <<"J","o","h","n"," ","S","m","i","t","h">>
ValidPhone  == <<"9","8","7","6","5">>
ValidEmail  == <<"j","@","s",".","i","n">>
ValidMember == <<"A","B","C","1">>

\* the forms a user can submit: the time slot box offers slots only once a
\* doctor is selected (lines 185-201)
SubmittedForms ==
    { f \in [ full_name : {<<>>, <<" ">>, <<"J">>, <<" ","J"," ">>, <<"J","o">>, ValidName},
              phone : {<<>>, <<" ">>, ValidPhone},
              email : {<<>>, <<"j">>, ValidEmail},
              preferred_doctor : {NoDoctorChoice, "Dr. Smith"},
              selected_time_slot : {NoSlotChoice, 1000},
              insurance_provider : {NoInsuranceChoice, "Aetna"},
              member_id : {<<>>, ValidMember} ] :
        f.preferred_doctor = NoDoctorChoice => f.selected_time_slot = NoSlotChoice }

\* the submit button is pressed
SubmitForm ==
    /\ vf_phase = "filled"
    /\ vf_errors' = validate(vf_form)
    /\ vf_phase' = "validated"
    /\ UNCHANGED vf_form

-----------------------------------------------------------------------------
(* Reminder scheduling: NotificationAgent.schedule_reminders is called at
   app.py line 450; its offsets are the ones the confirmation page lists. *)

\* a reminder list without the 30 minute reminder
ReminderOffsetsShort == <<1440, 120>>

\* 24 hours, 2 hours and 30 minutes, in minutes
ReminderOffsets == <<1440, 120, 30>>

RECURSIVE reminder_jobs(_, _, _)
\* one job per offset whose firing time is still in the future
reminder_jobs(offsets, start, t) ==
    IF offsets = <<>> THEN <<>>
    ELSE (IF start - Head(offsets) > t
          THEN << [kind |-> Head(offsets), fire_at |-> start - Head(offsets),
                   dispatched |-> FALSE] >>
          ELSE <<>>) \o reminder_jobs(Tail(offsets), start, t)

\* schedule(appointment) at time t
schedule_reminders(start, t) == reminder_jobs(ReminderOffsets, start, t)

MaxNow == 5
\* how long before its start an appointment is booked, in minutes
Leads == {10, 29, 30, 31, 60, 119, 120, 121, 1439, 1440, 1441, 1500}

ScheduleReminders ==
    /\ rm_phase = "confirmed"
    /\ rm_jobs' = schedule_reminders(rm_start, now)
    /\ rm_phase' = "scheduled"
    /\ UNCHANGED <<now, rm_start>>

-----------------------------------------------------------------------------
(* utils/data_generator.py *)

Doctors     == <<"Dr. Smith", "Dr. Johnson">>
WorkingDays == << <<2026, 11, 4>> >>
Times       == <<"09:00">>
FakeName    == <<"F","a","k","e">>
FirstSlotId == 1000

NumSlots == Len(Doctors) * Len(WorkingDays) * Len(Times)

\* DataGenerator.generate_doctor_schedule: doctor by doctor, day by day, time by
\* time, slot ids counting up; avail[i] is the draw random.random() > 0.3
schedule_data(doctors, working_days, times, avail) ==
    [ i \in 1..(Len(doctors) * Len(working_days) * Len(times)) |->
        LET k == i - 1
            perDoctor == Len(working_days) * Len(times)
        IN  [ Slot_ID |-> FirstSlotId + k,
              Doctor |-> doctors[(k \div perDoctor) + 1],
              Date |-> working_days[((k % perDoctor) \div Len(times)) + 1],
              Time |-> times[(k % Len(times)) + 1],
              Available |-> avail[i],
              Duration_Minutes |-> 30,
              Patient_Name |-> IF avail[i] THEN <<>> ELSE FakeName,
              Notes |-> IF avail[i] THEN "" ELSE "Booked" ] ]

\* the schedule of the doctors, days and times the booking flow is checked on
generate_doctor_schedule(avail) == schedule_data(Doctors, WorkingDays, Times, avail)

RECURSIVE digits(_)
\* str(n)
digits(n) == IF n < 10 THEN <<n>> ELSE digits(n \div 10) \o <<n % 10>>

RECURSIVE str_less(_, _)
\* a < b for strings (lexicographic)
str_less(a, b) ==
    IF b = <<>> THEN FALSE
    ELSE IF a = <<>> THEN TRUE
    ELSE IF Head(a) # Head(b) THEN Head(a) < Head(b)
    ELSE str_less(Tail(a), Tail(b))

\* int(df['patient_id'].str.replace('PAT', '').max()): the maximum is taken
\* over the digit strings
last_patient_id(df) ==
    LET ids == {df[i].patient_id : i \in 1..Len(df)}
    IN  CHOOSE m \in ids : \A n \in ids : ~str_less(digits(m), digits(n))

\* the id DataGenerator.update_patient_csv_with_new_patient gives the new row
new_patient_id(df) ==
    IF Len(df) > 0 THEN last_patient_id(df) + 1 ELSE 1000

\* the row update_patient_csv_with_new_patient appends ('New Patient' is the
\* empty visit history)
new_patient(df, patient_data) ==
    [ patient_id |-> new_patient_id(df),
      name |-> patient_data.name,
      DOB |-> patient_data.dob,
      visit_history |-> <<>> ]

-----------------------------------------------------------------------------
(* utils/excel_manager.py *)

\* ExcelManager.get_available_slots(doctor, date); "" and NoDate stand for None
get_available_slots(df, doctor, date) ==
    SelectSeq(df, LAMBDA row : /\ row.Available = TRUE
                               /\ (doctor # "" => row.Doctor = doctor)
                               /\ (date # NoDate => row.Date = date))

\* SchedulingAgent.get_available_slots(doctor), called at app.py lines 187 and 279
scheduling_agent_slots(df, doctor) == get_available_slots(df, doctor, NoDate)

slot_ids(slots) == {slots[i].Slot_ID : i \in 1..Len(slots)}

\* the row book_appointment appends to appointments.xlsx
appointment_record(appointment_id, patient_data) ==
    [ Appointment_ID |-> appointment_id,
      Patient_Name |-> patient_data.name,
      DOB |-> patient_data.dob,
      Doctor |-> patient_data.doctor,
      Date |-> patient_data.appointment.date,
      Time |-> patient_data.appointment.time,
      Duration_Minutes |-> patient_data.appointment.duration,
      Status |-> "Confirmed",
      Patient_Type |-> IF patient_data.is_returning THEN "Returning" ELSE "New" ]

\* the rows update_doctor_schedule selects: by slot id when the appointment
\* carries one, else by doctor, date and time among the available rows
schedule_mask(df, patient_data) ==
    IF patient_data.appointment.slot_id # 0
    THEN {i \in 1..Len(df) : df[i].Slot_ID = patient_data.appointment.slot_id}
    ELSE {i \in 1..Len(df) : /\ df[i].Doctor = patient_data.doctor
                             /\ df[i].Date = patient_data.appointment.date
                             /\ df[i].Time = patient_data.appointment.time
                             /\ df[i].Available = TRUE}

\* the data frame update_doctor_schedule writes back
mark_booked(df, mask, patient_data) ==
    [ i \in 1..Len(df) |->
        IF i \in mask
        THEN [df[i] EXCEPT !.Available = FALSE,
                           !.Patient_Name = patient_data.name,
                           !.Notes = "Booked via AI Agent"]
        ELSE df[i] ]

-----------------------------------------------------------------------------
(* app.py: one script run per session, interleaved with the other sessions at
   every file read and write *)

Sessions     == {"s1", "s2"}
MaxBookings  == 2
MaxFaults    == 1

BirthDate    == <<1980, 1, 2>>
BookingNames == {JohnSmith, JaneDoe}
\* patients.csv as generate_patients_csv leaves it: one patient with one visit
SeedPatients == << PatientRow(1000, JaneDoe, strftime_mdY(BirthDate), << <<2025, 5, 6>> >>) >>
\* the draws of generate_doctor_schedule the model starts from
SeedAvailability ==
    { [i \in 1..NumSlots |-> TRUE], [i \in 1..NumSlots |-> i # 2] }

NoDateStr     == [f |-> <<>>, sep |-> ""]
NoAppointment == [date |-> NoDate, time |-> "", duration |-> 0, slot_id |-> 0]

\* st.session_state.patient_data = {}; `keys` are the keys the dict holds
EmptyPatientData ==
    [ keys |-> {}, name |-> <<>>, dob |-> NoDateStr, doctor |-> "",
      is_returning |-> FALSE, patient_record |-> 0,
      appointment |-> NoAppointment, appointment_id |-> 0 ]

\* the session state the three reset buttons leave
ClearedSession ==
    [ patient_data |-> EmptyPatientData, form_submitted |-> FALSE,
      appointment_booked |-> FALSE ]

BlankForm ==
    [ full_name |-> <<>>, dob |-> BirthDate, phone |-> <<>>, email |-> ValidEmail,
      preferred_doctor |-> NoDoctorChoice, selected_time_slot |-> NoSlotChoice,
      insurance_provider |-> "Aetna", member_id |-> ValidMember ]

BlankLocal ==
    [ selected_time_slot |-> NoSlotChoice, selected_slot |-> 0, appointment_id |-> 0,
      df |-> <<>>, prior |-> FALSE, appt_written |-> FALSE,
      sched_ok |-> FALSE, flipped |-> FALSE, pat_ok |-> FALSE ]

NothingShown == [kind |-> ""]

\* lines 20-28
InitBooking ==
    /\ schedule \in {generate_doctor_schedule(a) : a \in SeedAvailability}
    /\ appointments = <<>>
    /\ patients = SeedPatients
    /\ pc = [s \in Sessions |-> "form"]
    /\ form = [s \in Sessions |-> BlankForm]
    /\ local = [s \in Sessions |-> BlankLocal]
    /\ session_state = [s \in Sessions |->
            [ patient_data |-> EmptyPatientData, form_submitted |-> FALSE,
              appointment_booked |-> FALSE ]]
    /\ shown = [s \in Sessions |-> NothingShown]
    /\ next_uuid = 1
    /\ faults = 0
    /\ history = {}

IdleResolver ==
    /\ rq_name = <<>> /\ rq_dob = NoDateStr /\ rq_store = <<>>
    /\ rq_result = 0 /\ rq_phase = "off"
IdleValidate == vf_form = BlankForm /\ vf_errors = <<>> /\ vf_phase = "off"
IdleReminder == now = 0 /\ rm_start = 0 /\ rm_jobs = <<>> /\ rm_phase = "off"
IdleQuery == q_doctor = "" /\ q_date = NoDate /\ q_result = <<>> /\ q_phase = "off"
NoReportFile == [exists |-> FALSE, rows |-> <<>>]
IdleReport ==
    /\ admin_report = NoReportFile /\ rp_date = NoDate
    /\ rp_before = NoReportFile /\ rp_once = NoReportFile /\ rp_phase = "off"
IdleBooking ==
    /\ schedule = <<>> /\ appointments = <<>> /\ patients = <<>>
    /\ pc = [s \in Sessions |-> "off"]
    /\ form = [s \in Sessions |-> BlankForm]
    /\ local = [s \in Sessions |-> BlankLocal]
    /\ session_state = [s \in Sessions |->
            [ patient_data |-> EmptyPatientData, form_submitted |-> FALSE,
              appointment_booked |-> FALSE ]]
    /\ shown = [s \in Sessions |-> NothingShown]
    /\ next_uuid = 1 /\ faults = 0 /\ history = {}

harnessVars == <<resolverVars, validateVars, reminderVars, queryVars, reportVars>>

\* the slot row with the given id (date and time of a slot never change)
slot_row(df, id) == df[CHOOSE i \in 1..Len(df) : df[i].Slot_ID = id]

\* bookings that have been submitted and have not drawn their uuid yet
Submitted == {t \in Sessions : pc[t] \in {"requery", "lookup", "book"}}

\* a submit handler that goes on to the booking whatever the validation found
SubmitUnchecked(s) ==
    /\ pc[s] = "form"
    /\ next_uuid + Cardinality(Submitted) <= MaxBookings
    /\ \E name \in BookingNames, phone \in {<<>>, ValidPhone},
          doctor \in {NoDoctorChoice} \cup to_set(Doctors) :
         \E slot \in {NoSlotChoice} \cup
                     (IF doctor = NoDoctorChoice THEN {}
                      ELSE slot_ids(scheduling_agent_slots(schedule, doctor))) :
            LET f == [BlankForm EXCEPT !.full_name = name, !.phone = phone,
                                       !.preferred_doctor = doctor,
                                       !.selected_time_slot = slot]
            IN  /\ shown' = [shown EXCEPT ![s] =
                                IF validate(f) # <<>> THEN [kind |-> "validation"]
                                ELSE NothingShown]
                /\ pc' = [pc EXCEPT ![s] = "requery"]
                /\ form' = [form EXCEPT ![s] = f]
                /\ local' = [local EXCEPT ![s] =
                               [BlankLocal EXCEPT !.selected_time_slot = slot]]
    /\ UNCHANGED <<schedule, appointments, patients, session_state,
                   next_uuid, faults, history, harnessVars>>

\* The user fills the form in and presses "Schedule My Appointment": the script
\* runs again, lists the doctor's available slots (lines 185-201: the time slot
\* box offers these, and only once a doctor is chosen) and validates (245-274).
Submit(s) ==
    /\ pc[s] = "form"
    /\ next_uuid + Cardinality(Submitted) <= MaxBookings
    /\ \E name \in BookingNames, phone \in {<<>>, ValidPhone},
          doctor \in {NoDoctorChoice} \cup to_set(Doctors) :
         \E slot \in {NoSlotChoice} \cup
                     (IF doctor = NoDoctorChoice THEN {}
                      ELSE slot_ids(scheduling_agent_slots(schedule, doctor))) :
            LET f == [BlankForm EXCEPT !.full_name = name, !.phone = phone,
                                       !.preferred_doctor = doctor,
                                       !.selected_time_slot = slot]
                errors == validate(f)
            IN  IF errors # <<>>
                THEN /\ shown' = [shown EXCEPT ![s] = [kind |-> "validation"]]
                     /\ UNCHANGED <<pc, form, local>>
                ELSE /\ shown' = [shown EXCEPT ![s] = NothingShown]
                     /\ pc' = [pc EXCEPT ![s] = "requery"]
                     /\ form' = [form EXCEPT ![s] = f]
                     /\ local' = [local EXCEPT ![s] =
                                    [BlankLocal EXCEPT !.selected_time_slot = slot]]
    /\ UNCHANGED <<schedule, appointments, patients, session_state,
                   next_uuid, faults, history, harnessVars>>

\* a handler that takes the selected slot without listing the slots again
RequeryTrusting(s) ==
    /\ pc[s] = "requery"
    /\ local' = [local EXCEPT ![s].selected_slot = local[s].selected_time_slot]
    /\ pc' = [pc EXCEPT ![s] = "lookup"]
    /\ UNCHANGED <<schedule, appointments, patients, form, session_state, shown,
                   next_uuid, faults, history, harnessVars>>

\* lines 276-283: the slots are listed again and the selected one looked up
Requery(s) ==
    /\ pc[s] = "requery"
    /\ LET available_slots == scheduling_agent_slots(schedule, form[s].preferred_doctor)
       IN  local' = [local EXCEPT ![s].selected_slot =
                        IF local[s].selected_time_slot \in slot_ids(available_slots)
                        THEN local[s].selected_time_slot ELSE 0]
    /\ pc' = [pc EXCEPT ![s] = "lookup"]
    /\ UNCHANGED <<schedule, appointments, patients, form, session_state, shown,
                   next_uuid, faults, history, harnessVars>>

\* process_appointment_form, lines 405-438 and 460-461
Lookup(s) ==
    /\ pc[s] = "lookup"
    /\ LET f == form[s]
           dob_str == strftime_mdY(f.dob)
           patient_record == lookup_patient(patients, f.full_name, dob_str)
           is_returning == patient_record # 0
           duration == IF is_returning THEN 30 ELSE 60
           sel == local[s].selected_slot
           row == slot_row(schedule, sel)
           pd0 == [ keys |-> {"name"} \cup (IF is_returning THEN {"patient_record"} ELSE {}),
                    name |-> strip(f.full_name), dob |-> dob_str,
                    doctor |-> f.preferred_doctor, is_returning |-> is_returning,
                    patient_record |-> IF is_returning
                                       THEN patients[patient_record].patient_id ELSE 0,
                    appointment |-> NoAppointment, appointment_id |-> 0 ]
           pd1 == [pd0 EXCEPT !.keys = @ \cup {"appointment"},
                              !.appointment = [date |-> row.Date, time |-> row.Time,
                                               duration |-> duration, slot_id |-> sel]]
           prior == \E h \in history : /\ h.returned # 0
                                       /\ h.name = pd0.name /\ h.dob = dob_str
       IN  IF sel # 0
           THEN /\ session_state' = [session_state EXCEPT ![s].patient_data = pd1]
                /\ local' = [local EXCEPT ![s].prior = prior]
                /\ pc' = [pc EXCEPT ![s] = "book"]
                /\ UNCHANGED <<form, shown>>
           ELSE /\ session_state' = [session_state EXCEPT ![s].patient_data = pd0]
                /\ local' = [local EXCEPT ![s] = BlankLocal]
                /\ pc' = [pc EXCEPT ![s] = "form"]
                /\ form' = [form EXCEPT ![s] = BlankForm]
                /\ shown' = [shown EXCEPT ![s] = [kind |-> "no_slots"]]
    /\ UNCHANGED <<schedule, appointments, patients,
                   next_uuid, faults, history, harnessVars>>

\* book_appointment returns `ret` (0 for None) to process_appointment_form, which
\* stores it (lines 441-444, 458-459)
BookReturns(s, loc, ret) ==
    LET pd0 == session_state[s].patient_data
        pd  == [pd0 EXCEPT !.keys = @ \cup {"appointment_id"}, !.appointment_id = ret]
        rec == [ appointment_id |-> loc.appointment_id, returned |-> ret,
                 name |-> pd0.name, dob |-> pd0.dob, slot_id |-> pd0.appointment.slot_id,
                 is_returning |-> pd0.is_returning, patient_record |-> pd0.patient_record,
                 duration |-> pd0.appointment.duration, prior |-> loc.prior,
                 appt_written |-> loc.appt_written, sched_ok |-> loc.sched_ok,
                 flipped |-> loc.flipped, pat_ok |-> loc.pat_ok ]
    IN  /\ history' = history \cup {rec}
        /\ local' = [local EXCEPT ![s] = BlankLocal]
        /\ form' = [form EXCEPT ![s] = BlankForm]
        /\ session_state' = [session_state EXCEPT ![s].patient_data = pd]
        /\ IF ret = 0
           THEN /\ shown' = [shown EXCEPT ![s] = [kind |-> "booking_error"]]
                /\ pc' = [pc EXCEPT ![s] = "form"]
           ELSE /\ shown' = shown
                /\ pc' = [pc EXCEPT ![s] = "notify"]

\* a handler that marks the session booked and leaves form_submitted alone
NotifyBookedOnly(s) ==
    /\ pc[s] = "notify"
    /\ session_state' = [session_state EXCEPT ![s].appointment_booked = TRUE]
    /\ shown' = [shown EXCEPT ![s] = [kind |-> "success"]]
    /\ pc' = [pc EXCEPT ![s] = "confirmed"]
    /\ UNCHANGED <<schedule, appointments, patients, form, local,
                   next_uuid, faults, history, harnessVars>>

\* lines 445-457: the confirmations are sent, the reminders scheduled (what the
\* senders return is not looked at) and the session is marked booked
Notify(s) ==
    /\ pc[s] = "notify"
    /\ session_state' = [session_state EXCEPT ![s].form_submitted = TRUE,
                                              ![s].appointment_booked = TRUE]
    /\ shown' = [shown EXCEPT ![s] = [kind |-> "success"]]
    /\ pc' = [pc EXCEPT ![s] = "confirmed"]
    /\ UNCHANGED <<schedule, appointments, patients, form, local,
                   next_uuid, faults, history, harnessVars>>

\* the notification agent raises: lines 463-465 report the exception
NotifyRaises(s) ==
    /\ pc[s] = "notify"
    /\ faults < MaxFaults
    /\ faults' = faults + 1
    /\ shown' = [shown EXCEPT ![s] = [kind |-> "exception"]]
    /\ pc' = [pc EXCEPT ![s] = "form"]
    /\ UNCHANGED <<schedule, appointments, patients, form, local, session_state,
                   next_uuid, history, harnessVars>>

\* book_appointment, lines 50-78: the id is drawn and appointments.xlsx read
BookReadAppts(s) ==
    /\ pc[s] = "book"
    /\ local' = [local EXCEPT ![s].appointment_id = next_uuid, ![s].df = appointments]
    /\ next_uuid' = next_uuid + 1
    /\ pc' = [pc EXCEPT ![s] = "appt_write"]
    /\ UNCHANGED <<schedule, appointments, patients, form, session_state, shown,
                   faults, history, harnessVars>>

\* book_appointment, lines 80-81: the frame read, plus the new row, is written back
BookWriteAppts(s) ==
    /\ pc[s] = "appt_write"
    /\ appointments' = Append(local[s].df,
                              appointment_record(local[s].appointment_id,
                                                 session_state[s].patient_data))
    /\ local' = [local EXCEPT ![s].df = <<>>, ![s].appt_written = TRUE]
    /\ pc' = [pc EXCEPT ![s] = "sched_read"]
    /\ UNCHANGED <<schedule, patients, form, session_state, shown,
                   next_uuid, faults, history, harnessVars>>

\* to_excel raises at line 81: lines 95-97 return None
BookWriteApptsFails(s) ==
    /\ pc[s] = "appt_write"
    /\ faults < MaxFaults
    /\ faults' = faults + 1
    /\ BookReturns(s, [local[s] EXCEPT !.df = <<>>], 0)
    /\ UNCHANGED <<schedule, appointments, patients, next_uuid, harnessVars>>

\* what follows update_doctor_schedule in book_appointment (lines 86-93): a new
\* patient is added to patients.csv, and the appointment id is returned whatever
\* update_doctor_schedule returned
AfterSchedule(s, loc) ==
    IF session_state[s].patient_data.is_returning
    THEN BookReturns(s, loc, loc.appointment_id)
    ELSE /\ local' = [local EXCEPT ![s] = loc]
         /\ pc' = [pc EXCEPT ![s] = "pat_read"]
         /\ UNCHANGED <<form, session_state, shown, history>>

\* update_doctor_schedule, line 106
SchedRead(s) ==
    /\ pc[s] = "sched_read"
    /\ local' = [local EXCEPT ![s].df = schedule]
    /\ pc' = [pc EXCEPT ![s] = "sched_write"]
    /\ UNCHANGED <<schedule, appointments, patients, form, session_state, shown,
                   next_uuid, faults, history, harnessVars>>

\* the schedule file is missing or unreadable: lines 102-104, 135-137 return False
SchedReadFails(s) ==
    /\ pc[s] = "sched_read"
    /\ faults < MaxFaults
    /\ faults' = faults + 1
    /\ AfterSchedule(s, local[s])
    /\ UNCHANGED <<schedule, appointments, patients, next_uuid, harnessVars>>

\* update_doctor_schedule, lines 108-133
SchedWrite(s) ==
    /\ pc[s] = "sched_write"
    /\ LET df   == local[s].df
           pd   == session_state[s].patient_data
           mask == schedule_mask(df, pd)
       IN  IF mask # {}
           THEN /\ schedule' = mark_booked(df, mask, pd)
                /\ AfterSchedule(s, [local[s] EXCEPT
                        !.df = <<>>, !.sched_ok = TRUE,
                        !.flipped = \E i \in mask : schedule[i].Available])
           ELSE /\ schedule' = schedule
                /\ AfterSchedule(s, [local[s] EXCEPT !.df = <<>>])
    /\ UNCHANGED <<appointments, patients, next_uuid, faults, harnessVars>>

\* to_excel raises at line 128: lines 135-137 return False
SchedWriteFails(s) ==
    /\ pc[s] = "sched_write"
    /\ faults < MaxFaults
    /\ faults' = faults + 1
    /\ AfterSchedule(s, [local[s] EXCEPT !.df = <<>>])
    /\ UNCHANGED <<schedule, appointments, patients, next_uuid, harnessVars>>

\* update_patient_csv_with_new_patient, lines 124-127
PatRead(s) ==
    /\ pc[s] = "pat_read"
    /\ local' = [local EXCEPT ![s].df = patients]
    /\ pc' = [pc EXCEPT ![s] = "pat_write"]
    /\ UNCHANGED <<schedule, appointments, patients, form, session_state, shown,
                   next_uuid, faults, history, harnessVars>>

\* update_patient_csv_with_new_patient, lines 129-153
PatWrite(s) ==
    /\ pc[s] = "pat_write"
    /\ patients' = Append(local[s].df,
                          new_patient(local[s].df, session_state[s].patient_data))
    /\ BookReturns(s, [local[s] EXCEPT !.df = <<>>, !.pat_ok = TRUE],
                   local[s].appointment_id)
    /\ UNCHANGED <<schedule, appointments, next_uuid, faults, harnessVars>>

\* to_csv raises at line 151: lines 155-157 return None, which book_appointment ignores
PatWriteFails(s) ==
    /\ pc[s] = "pat_write"
    /\ faults < MaxFaults
    /\ faults' = faults + 1
    /\ BookReturns(s, [local[s] EXCEPT !.df = <<>>], local[s].appointment_id)
    /\ UNCHANGED <<schedule, appointments, patients, next_uuid, harnessVars>>

\* "Reset Form" (lines 90-95, 113-118) and "Book Another Appointment" (564-569)
Reset(s) ==
    /\ pc[s] \in {"form", "confirmed"}
    /\ session_state' = [session_state EXCEPT ![s] =
            [ patient_data |-> EmptyPatientData, form_submitted |-> FALSE,
              appointment_booked |-> FALSE ]]
    /\ form' = [form EXCEPT ![s] = BlankForm]
    /\ shown' = [shown EXCEPT ![s] = NothingShown]
    /\ pc' = [pc EXCEPT ![s] = "form"]
    /\ UNCHANGED <<schedule, appointments, patients, local,
                   next_uuid, faults, history, harnessVars>>

Next ==
    \E s \in Sessions :
        \/ Submit(s) \/ Requery(s) \/ Lookup(s)
        \/ BookReadAppts(s) \/ BookWriteAppts(s) \/ BookWriteApptsFails(s)
        \/ SchedRead(s) \/ SchedReadFails(s) \/ SchedWrite(s) \/ SchedWriteFails(s)
        \/ PatRead(s) \/ PatWrite(s) \/ PatWriteFails(s)
        \/ Notify(s) \/ NotifyRaises(s)
        \/ Reset(s)

Init == InitBooking /\ IdleResolver /\ IdleValidate /\ IdleReminder /\ IdleQuery /\ IdleReport

Spec == Init /\ [][Next]_vars

\* ensure_data_files, lines 44-54: os.path.exists('doctor_schedule.xlsx')
EnsureCheck(s) ==
    /\ pc[s] = "start"
    /\ pc' = [pc EXCEPT ![s] = IF schedule = <<>> THEN "generate" ELSE "form"]
    /\ UNCHANGED <<schedule, appointments, patients, form, local, session_state, shown,
                   next_uuid, faults, history, harnessVars>>

\* ensure_data_files, lines 55-66: generate_doctor_schedule draws the
\* availability of every slot and writes the file
Generate(s) ==
    /\ pc[s] = "generate"
    /\ \E avail \in SeedAvailability : schedule' = generate_doctor_schedule(avail)
    /\ pc' = [pc EXCEPT ![s] = "form"]
    /\ UNCHANGED <<appointments, patients, form, local, session_state, shown,
                   next_uuid, faults, history, harnessVars>>

NextStartup == Next \/ \E s \in Sessions : EnsureCheck(s) \/ Generate(s)
\* The first script runs of the sessions, before doctor_schedule.xlsx exists
\* (an empty sequence stands for the missing file): ensure_data_files, then the
\* booking flow.
InitStartups ==
    /\ schedule = <<>>
    /\ appointments = <<>>
    /\ patients = SeedPatients
    /\ pc = [s \in Sessions |-> "start"]
    /\ form = [s \in Sessions |-> BlankForm]
    /\ local = [s \in Sessions |-> BlankLocal]
    /\ session_state = [s \in Sessions |->
            [ patient_data |-> EmptyPatientData, form_submitted |-> FALSE,
              appointment_booked |-> FALSE ]]
    /\ shown = [s \in Sessions |-> NothingShown]
    /\ next_uuid = 1
    /\ faults = 0
    /\ history = {}
    /\ IdleResolver /\ IdleValidate /\ IdleReminder /\ IdleQuery /\ IdleReport
SpecStartup == InitStartups /\ [][NextStartup]_vars

\* The booking flow on patient files in which both booking names are new:
\* one as generate_patients_csv starts it, and one whose ids have reached
\* PAT9999 (of its rows only the first and the last are kept: the others
\* match no booking name and are not the maximum of the id strings).
NewPatientStores ==
    { << PatientRow(1000, JohnAdamSmith, Dob2, <<>>) >>,
      << PatientRow(1000, JohnAdamSmith, Dob2, <<>>), PatientRow(9999, MaryMajor, Dob2, <<>>) >> }

InitNewPatientsOnly ==
    /\ schedule = generate_doctor_schedule([i \in 1..NumSlots |-> TRUE])
    /\ appointments = <<>>
    /\ patients \in NewPatientStores
    /\ pc = [s \in Sessions |-> "form"]
    /\ form = [s \in Sessions |-> BlankForm]
    /\ local = [s \in Sessions |-> BlankLocal]
    /\ session_state = [s \in Sessions |->
            [ patient_data |-> EmptyPatientData, form_submitted |-> FALSE,
              appointment_booked |-> FALSE ]]
    /\ shown = [s \in Sessions |-> NothingShown]
    /\ next_uuid = 1
    /\ faults = 0
    /\ history = {}
    /\ IdleResolver /\ IdleValidate /\ IdleReminder /\ IdleQuery /\ IdleReport
SpecNewPatients == InitNewPatientsOnly /\ [][Next]_vars

\* the resolver alone
NextResolve == Resolve /\ UNCHANGED <<bookingVars, validateVars, reminderVars, queryVars, reportVars>>
InitResolve ==
    /\ rq_name \in NameVariants
    /\ rq_dob = Dob1
    /\ rq_store \in ResolverStores
    /\ rq_result = 0
    /\ rq_phase = "ready"
    /\ IdleBooking /\ IdleValidate /\ IdleReminder /\ IdleQuery /\ IdleReport
SpecResolve == InitResolve /\ [][NextResolve]_vars

\* the resolver on requests that may find nothing, reading failures included
NextResolveSoft ==
    (Resolve \/ ResolveReadFails)
        /\ UNCHANGED <<bookingVars, validateVars, reminderVars, queryVars, reportVars>>
InitResolveSoft ==
    /\ rq_name \in SoftNames
    /\ rq_dob \in SoftDobs
    /\ rq_store \in ResolverStores \cup {<<>>}
    /\ rq_result = 0
    /\ rq_phase = "ready"
    /\ IdleBooking /\ IdleValidate /\ IdleReminder /\ IdleQuery /\ IdleReport
SpecResolveSoft == InitResolveSoft /\ [][NextResolveSoft]_vars

\* the resolver on requests that tell its two passes apart
NextResolvePasses ==
    Resolve /\ UNCHANGED <<bookingVars, validateVars, reminderVars, queryVars, reportVars>>
InitResolvePasses ==
    /\ rq_name \in PassNames
    /\ rq_dob \in { Dob1, Dob2, Dob1Iso, DobFeb30 }
    /\ rq_store \in PassStores
    /\ rq_result = 0
    /\ rq_phase = "ready"
    /\ IdleBooking /\ IdleValidate /\ IdleReminder /\ IdleQuery /\ IdleReport
SpecResolvePasses == InitResolvePasses /\ [][NextResolvePasses]_vars

\* validation alone
NextValidate == SubmitForm /\ UNCHANGED <<bookingVars, resolverVars, reminderVars, queryVars, reportVars>>
InitValidation ==
    /\ vf_form \in SubmittedForms
    /\ vf_errors = <<>>
    /\ vf_phase = "filled"
    /\ IdleBooking /\ IdleResolver /\ IdleReminder /\ IdleQuery /\ IdleReport
SpecValidate == InitValidation /\ [][NextValidate]_vars

\* reminder scheduling alone
NextReminder ==
    ScheduleReminders /\ UNCHANGED <<bookingVars, resolverVars, validateVars, queryVars, reportVars>>
InitReminders ==
    /\ now \in 0..MaxNow
    /\ rm_start \in {now + l : l \in Leads}
    /\ rm_jobs = <<>>
    /\ rm_phase = "confirmed"
    /\ IdleBooking /\ IdleResolver /\ IdleValidate /\ IdleQuery /\ IdleReport
SpecReminder == InitReminders /\ [][NextReminder]_vars

\* ExcelManager.get_available_slots alone, on a schedule of two doctors, two
\* days and two times
QueryDoctors == <<"Dr. Smith", "Dr. Johnson">>
QueryDays    == << <<2026, 11, 4>>, <<2026, 11, 5>> >>
QueryTimes   == <<"09:00", "09:30">>

\* get_available_slots(doctor, date) is called and returns
Query ==
    /\ q_phase = "ready"
    /\ q_result' = get_available_slots(schedule, q_doctor, q_date)
    /\ q_phase' = "done"
    /\ UNCHANGED <<q_doctor, q_date, bookingVars, resolverVars, validateVars, reminderVars,
                   reportVars>>

InitQueries ==
    /\ schedule \in { schedule_data(QueryDoctors, QueryDays, QueryTimes, a) :
                        a \in [1..(Len(QueryDoctors) * Len(QueryDays) * Len(QueryTimes))
                                -> BOOLEAN] }
    /\ appointments = <<>> /\ patients = <<>>
    /\ pc = [s \in Sessions |-> "off"]
    /\ form = [s \in Sessions |-> BlankForm]
    /\ local = [s \in Sessions |-> BlankLocal]
    /\ session_state = [s \in Sessions |->
            [ patient_data |-> EmptyPatientData, form_submitted |-> FALSE,
              appointment_booked |-> FALSE ]]
    /\ shown = [s \in Sessions |-> NothingShown]
    /\ next_uuid = 1 /\ faults = 0 /\ history = {}
    /\ q_doctor \in {""} \cup to_set(QueryDoctors)
    /\ q_date \in {NoDate} \cup to_set(QueryDays)
    /\ q_result = <<>>
    /\ q_phase = "ready"
    /\ IdleResolver /\ IdleValidate /\ IdleReminder /\ IdleReport
SpecQuery == InitQueries /\ [][Query]_vars

-----------------------------------------------------------------------------
(* utils/excel_manager.py, generate_daily_report: the sidebar button runs it
   (app.py line 85), here twice over the same appointments.xlsx *)

\* pd.to_datetime(column, errors='coerce').dt.date of a Report_Date cell, which
\* holds the text strftime('%m/%d/%Y') wrote: NoDate stands for NaT
report_date_parsed(cell) == strptime(cell, date_formats[1])

\* lines 199-213: the report row of an appointment
report_record(report_date, appointment) ==
    [ Report_Date |-> strftime_mdY(report_date),
      Appointment_ID |-> appointment.Appointment_ID,
      Patient_Name |-> appointment.Patient_Name,
      Doctor |-> appointment.Doctor,
      Appointment_Date |-> appointment.Date,
      Appointment_Time |-> appointment.Time,
      Patient_Type |-> appointment.Patient_Type,
      Status |-> appointment.Status ]

\* lines 190-213: one report row per appointment dated report_date, in file order
report_records(appointments_df, report_date) ==
    LET daily_appointments ==
            SelectSeq(appointments_df, LAMBDA a : a.Date # NoDate /\ a.Date = report_date)
    IN  [i \in 1..Len(daily_appointments) |-> report_record(report_date, daily_appointments[i])]

\* a generator that appends without removing the entries of the date
generate_daily_report_appending(appointments_df, report, report_date) ==
    [ exists |-> TRUE,
      rows |-> report.rows \o report_records(appointments_df, report_date) ]

\* ExcelManager.generate_daily_report: admin_report.xlsx as the call leaves it
\* (lines 215-231); a missing file is created empty first
generate_daily_report(appointments_df, report, report_date) ==
    LET report_df ==
            IF report.exists
            THEN SelectSeq(report.rows,
                           LAMBDA r : report_date_parsed(r.Report_Date) # report_date)
            ELSE <<>>
    IN  [ exists |-> TRUE,
          rows |-> report_df \o report_records(appointments_df, report_date) ]

ReportDay1 == <<2026, 11, 4>>
ReportDay2 == <<2026, 11, 5>>

\* an appointment row as book_appointment writes it
ReportAppointment(id, name, doctor, date) ==
    appointment_record(id, [EmptyPatientData EXCEPT
        !.name = name, !.doctor = doctor,
        !.appointment = [date |-> date, time |-> "09:00", duration |-> 60,
                         slot_id |-> FirstSlotId]])

\* appointments.xlsx: empty, one day, two days, two on a day, a date that is NaT
ReportAppointmentStores ==
    { <<>>,
      << ReportAppointment(1, JohnSmith, Doctors[1], ReportDay1) >>,
      << ReportAppointment(1, JohnSmith, Doctors[1], ReportDay1),
         ReportAppointment(2, JaneDoe, Doctors[2], ReportDay2) >>,
      << ReportAppointment(1, JohnSmith, Doctors[1], ReportDay1),
         ReportAppointment(2, JaneDoe, Doctors[2], ReportDay1),
         ReportAppointment(3, JaneDoe, Doctors[1], ReportDay2) >>,
      << ReportAppointment(1, JohnSmith, Doctors[1], NoDate),
         ReportAppointment(2, JaneDoe, Doctors[2], ReportDay2) >> }

\* admin_report.xlsx before the run: missing, empty, holding rows of an earlier
\* run for the same day (one of an appointment that is gone since), for another
\* day, and a row whose Report_Date does not parse
ReportFiles ==
    { NoReportFile,
      [exists |-> TRUE, rows |-> <<>>],
      [exists |-> TRUE, rows |->
          << report_record(ReportDay1, ReportAppointment(1, JohnSmith, Doctors[1], ReportDay1)),
             report_record(ReportDay1, ReportAppointment(9, JaneDoe, Doctors[1], ReportDay1)) >>],
      [exists |-> TRUE, rows |->
          << report_record(ReportDay2, ReportAppointment(2, JaneDoe, Doctors[2], ReportDay2)),
             report_record(ReportDay1, ReportAppointment(1, JohnSmith, Doctors[1], ReportDay1)) >>],
      [exists |-> TRUE, rows |->
          << [report_record(ReportDay1, ReportAppointment(8, JaneDoe, Doctors[2], ReportDay1))
                EXCEPT !.Report_Date = DobFeb30],
             report_record(ReportDay1, ReportAppointment(1, JohnSmith, Doctors[1], ReportDay1)) >>] }

\* the "Generate Admin Report" button: one call of generate_daily_report
GenerateReport ==
    /\ rp_phase \in {"ready", "once"}
    /\ admin_report' = generate_daily_report(appointments, admin_report, rp_date)
    /\ rp_once' = IF rp_phase = "ready" THEN admin_report' ELSE rp_once
    /\ rp_phase' = IF rp_phase = "ready" THEN "once" ELSE "twice"
    /\ UNCHANGED <<rp_date, rp_before, bookingVars, resolverVars, validateVars,
                   reminderVars, queryVars>>

InitReports ==
    /\ appointments \in ReportAppointmentStores
    /\ admin_report \in ReportFiles
    /\ rp_date \in {ReportDay1, ReportDay2}
    /\ rp_before = admin_report
    /\ rp_once = NoReportFile
    /\ rp_phase = "ready"
    /\ schedule = <<>> /\ patients = <<>>
    /\ pc = [s \in Sessions |-> "off"]
    /\ form = [s \in Sessions |-> BlankForm]
    /\ local = [s \in Sessions |-> BlankLocal]
    /\ session_state = [s \in Sessions |-> ClearedSession]
    /\ shown = [s \in Sessions |-> NothingShown]
    /\ next_uuid = 1 /\ faults = 0 /\ history = {}
    /\ IdleResolver /\ IdleValidate /\ IdleReminder /\ IdleQuery
SpecReport == InitReports /\ [][GenerateReport]_vars

-----------------------------------------------------------------------------
(* Claims *)

\* the finished book_appointment calls that returned an appointment id
Successes == {h \in history : h.returned # 0}

\* the rows of appointments.xlsx that reference the slot of schedule row r
AppointmentsOf(r) ==
    {i \in 1..Len(appointments) : /\ appointments[i].Doctor = r.Doctor
                                  /\ appointments[i].Date = r.Date
                                  /\ appointments[i].Time = r.Time}

\* no session is inside book_appointment
Quiescent == \A s \in Sessions : pc[s] \in {"form", "requery", "lookup", "notify", "confirmed"}

\* C1: of the booking attempts that reserve the same slot (each wrote the
\* schedule for it), at most one succeeds; the others fail without booking.
C1_NoDoubleBooking ==
    \A r \in to_set(schedule) :
        Cardinality({h \in Successes : h.slot_id = r.Slot_ID /\ h.sched_ok}) <= 1

\* C2: whenever no booking is in progress (and no storage failure has occurred),
\* at most one appointment row that is not cancelled references a given slot
\* (doctor, date and time).
C2_OneAppointmentPerSlot ==
    (Quiescent /\ faults = 0) => \A r \in to_set(schedule) :
        Cardinality({i \in AppointmentsOf(r) : appointments[i].Status # "Cancelled"}) <= 1

\* C3: a slot row whose Available flag is false is never changed again: it stays
\* unavailable and its Patient_Name is not overwritten.
C3_HeldSlotUnchanged ==
    [][\A i \in 1..Len(schedule) :
          schedule[i].Available = FALSE => schedule'[i] = schedule[i]]_vars

\* C4: when book_appointment returns after one of its two writes (appointment
\* row, schedule row) succeeded and the other failed, the slot is available and
\* no appointment row references it.
C4_Atomicity ==
    [][\A h \in history' \ history :
          (h.appt_written # h.sched_ok) =>
              \A i \in 1..Len(schedule') :
                  schedule'[i].Slot_ID = h.slot_id =>
                      /\ schedule'[i].Available = TRUE
                      /\ \A j \in 1..Len(appointments') :
                            ~( /\ appointments'[j].Doctor = schedule'[i].Doctor
                               /\ appointments'[j].Date = schedule'[i].Date
                               /\ appointments'[j].Time = schedule'[i].Time )]_vars

\* C5: book_appointment returns an appointment id only if its schedule update
\* flipped the slot from available to unavailable, and when the schedule update
\* failed it returns None and no row with its appointment id is in the store.
C5_SuccessOnlyIfFlipped ==
    \A h \in history :
        /\ h.returned # 0 => h.flipped
        /\ (h.appt_written /\ ~h.sched_ok) =>
              /\ h.returned = 0
              /\ \A j \in 1..Len(appointments) :
                    appointments[j].Appointment_ID # h.appointment_id

\* C7: a booking made once an earlier booking for the same name and date of
\* birth has succeeded is Returning with duration 30; a booking for which no
\* patient matched is New with duration 60.
C7_NewThenReturning ==
    \A h \in history :
        /\ (h.returned # 0 /\ h.prior) => (h.is_returning /\ h.duration = 30)
        /\ (h.returned # 0 /\ h.patient_record = 0) => (~h.is_returning /\ h.duration = 60)

\* C8: once no booking is in progress, every patient's visit history has grown
\* by exactly one entry per successful Returning booking of that patient (one
\* that returned an appointment id and took its slot).
C8_VisitHistoryAppended ==
    Quiescent =>
        \A i \in 1..Len(patients) :
            LET grown == Cardinality({h \in Successes :
                                        h.sched_ok /\ h.flipped /\ h.is_returning
                                        /\ h.patient_record = patients[i].patient_id})
                seeded == IF i <= Len(SeedPatients)
                          THEN Len(SeedPatients[i].visit_history) ELSE 0
            IN  Len(patients[i].visit_history) = seeded + grown

\* C6: resolve with the stored date of birth and any variant of "John Smith"
\* returns an existing patient, the one resolve returns for "John Smith" itself.
C6_SameExisting ==
    rq_phase = "done" =>
        /\ rq_result # 0
        /\ rq_result = lookup_patient(rq_store, JohnSmith, rq_dob)

\* the required-field rules of the form, with the message of each
FieldRules(f) ==
    { [violated |-> name_error(f),      msg |-> "Please enter your full name"],
      [violated |-> phone_error(f),     msg |-> "Please enter your phone number"],
      [violated |-> email_error(f),     msg |-> "Please enter a valid email address"],
      [violated |-> doctor_error(f),    msg |-> "Please select a preferred doctor"],
      [violated |-> slot_error(f),      msg |-> "Please select an appointment time slot"],
      [violated |-> insurance_error(f), msg |-> "Please select your insurance provider"],
      [violated |-> member_error(f),    msg |-> "Please enter your insurance member ID"] }

\* C9: the error list of a submitted form has exactly one entry per violated
\* required-field rule; missing name, missing phone and no slot selected (the
\* rest valid) gives exactly three entries.
C9_ValidationBatching ==
    vf_phase = "validated" =>
        /\ Len(vf_errors) = Cardinality({r \in FieldRules(vf_form) : r.violated})
        /\ \A r \in FieldRules(vf_form) :
              Cardinality({i \in 1..Len(vf_errors) : vf_errors[i] = r.msg})
                  = IF r.violated THEN 1 ELSE 0
        /\ ( /\ vf_form.full_name = <<>> /\ vf_form.phone = <<>>
             /\ vf_form.selected_time_slot = NoSlotChoice
             /\ vf_form.preferred_doctor # NoDoctorChoice
             /\ vf_form.email = ValidEmail /\ vf_form.member_id = ValidMember
             /\ vf_form.insurance_provider # NoInsuranceChoice )
           => Len(vf_errors) = 3

\* a form with no name, no phone and no slot selected was validated
C9_Witness ==
    /\ vf_phase = "validated"
    /\ vf_form.full_name = <<>> /\ vf_form.phone = <<>>
    /\ vf_form.selected_time_slot = NoSlotChoice
    /\ vf_form.preferred_doctor # NoDoctorChoice
    /\ vf_form.email = ValidEmail /\ vf_form.member_id = ValidMember
    /\ vf_form.insurance_provider # NoInsuranceChoice
    /\ Len(vf_errors) = 3

\* C10: scheduling creates exactly one job, firing at start - offset, for each
\* of the offsets 24h, 2h and 30m whose firing time is after now, and none for
\* the others; a start 10 minutes away gives no job, one 25 hours away three.
C10_ReminderOffsetFiltering ==
    rm_phase = "scheduled" =>
        /\ \A off \in {1440, 120, 30} :
              Cardinality({i \in 1..Len(rm_jobs) : rm_jobs[i].kind = off})
                  = IF rm_start - off > now THEN 1 ELSE 0
        /\ \A i \in 1..Len(rm_jobs) :
              /\ rm_jobs[i].kind \in {1440, 120, 30}
              /\ rm_jobs[i].fire_at = rm_start - rm_jobs[i].kind
              /\ rm_jobs[i].fire_at > now
        /\ (rm_start - now = 10 => Len(rm_jobs) = 0)
        /\ (rm_start - now = 1500 => Len(rm_jobs) = 3)

\* reminders were scheduled for an appointment that starts in 25 hours
C10_Witness ==
    /\ rm_phase = "scheduled"
    /\ rm_start - now = 1500
    /\ Len(rm_jobs) = 3

time_minutes(t) == CASE t = "09:00" -> 540 [] t = "09:30" -> 570

\* the (date, time) sort key of a slot
date_time_key(row) == row.Date \o <<time_minutes(row.Time)>>

StaleSelection(s) ==
    \A i \in 1..Len(schedule) :
        schedule[i].Slot_ID = local[s].selected_time_slot => ~schedule[i].Available

\* C14: when the slot selected in a submitted request is not available at the
\* moment the submit handler lists the slots again, no slot is handed to the
\* booking, and the run ends with the "no available slots" error without
\* writing an appointment, a patient or a slot and without marking the session
\* booked.
C14_StaleSelectionFails ==
    [][\A s \in Sessions :
          /\ (pc[s] = "requery" /\ pc'[s] # "requery" /\ StaleSelection(s))
                => (pc'[s] = "lookup" /\ local'[s].selected_slot = 0)
          /\ (pc[s] = "lookup" /\ pc'[s] # "lookup" /\ local[s].selected_slot = 0)
                => /\ shown'[s].kind = "no_slots"
                   /\ pc'[s] = "form"
                   /\ ~session_state'[s].appointment_booked
                   /\ schedule' = schedule
                   /\ appointments' = appointments
                   /\ patients' = patients
                   /\ history' = history]_vars

\* a request whose slot had been taken by another session's booking was refused
C14_Witness ==
    \E s \in Sessions :
        /\ shown[s].kind = "no_slots"
        /\ pc[s] = "form"
        /\ \E h \in Successes : h.sched_ok /\ h.flipped

\* C15: a step that changes the schedule file is the schedule update of one
\* booking, and it changes the row with the requested slot id only, to
\* unavailable with the requester as Patient_Name; every other row is as it
\* was in the file just before.
C15_OneSlotChanged ==
    [][schedule' # schedule =>
          \E s \in Sessions :
              LET pd == session_state[s].patient_data
              IN  /\ pc[s] = "sched_write"
                  /\ pc'[s] # "sched_write"
                  /\ Len(schedule') = Len(schedule)
                  /\ \A i \in 1..Len(schedule) :
                        IF schedule[i].Slot_ID = pd.appointment.slot_id
                        THEN /\ schedule'[i].Available = FALSE
                             /\ schedule'[i].Patient_Name = pd.name
                        ELSE schedule'[i] = schedule[i]]_vars

\* C16: a run of generate_doctor_schedule leaves every slot row that a booking
\* holds (unavailable, written by update_doctor_schedule) in the file, still
\* unavailable and with the same holder.
C16_GenerateKeepsHeldSlots ==
    [][\A s \in Sessions :
          (pc[s] = "generate" /\ pc'[s] # "generate") =>
              \A i \in 1..Len(schedule) :
                  (~schedule[i].Available /\ schedule[i].Notes = "Booked via AI Agent")
                      => \E j \in 1..Len(schedule') :
                            /\ schedule'[j].Slot_ID = schedule[i].Slot_ID
                            /\ ~schedule'[j].Available
                            /\ schedule'[j].Patient_Name = schedule[i].Patient_Name]_vars

\* the request cannot match a record: the store is empty or missing, the name
\* is empty, the date of birth does not parse, no record has the date of
\* birth, or no record shares a word with the name
NothingToFind(store, name, dob) ==
    \/ store = <<>>
    \/ strip(name) = <<>>
    \/ parse_date(dob) = NoDate
    \/ \A i \in 1..Len(store) : parse_date(store[i].DOB) # parse_date(dob)
    \/ \A i \in 1..Len(store) :
          to_set(split(lower(store[i].name))) \cap to_set(split(lower(name))) = {}

\* C17: lookup_patient never ends by raising; it returns None when the request
\* cannot match a record (empty or missing store, empty name, unparseable date
\* of birth, no record with that date of birth or name) and when reading the
\* store fails; and it leaves the patient store as it was.
C17_ResolveFailsSoft ==
    [][/\ rq_phase' # "raised"
       /\ (rq_phase' = "done" /\ NothingToFind(rq_store, rq_name, rq_dob))
              => rq_result' = 0
       /\ rq_store' = rq_store
       /\ patients' = patients]_vars

\* a lookup with an unparseable date of birth on a non-empty store has returned
C17_Witness ==
    /\ rq_phase = "done"
    /\ rq_store # <<>>
    /\ rq_name = JohnSmith
    /\ rq_dob = DobFeb30
    /\ rq_result = 0

\* C18: after every step, no two rows of patients.csv have the same
\* patient_id, and a row that is still in its place has the patient_id it had.
C18_PatientIdUniqueStable ==
    [][/\ \A i, j \in 1..Len(patients') :
             i # j => patients'[i].patient_id # patients'[j].patient_id
       /\ \A i \in 1..Len(patients) :
             (/\ i <= Len(patients')
              /\ patients'[i].name = patients[i].name
              /\ patients'[i].DOB = patients[i].DOB)
                 => patients'[i].patient_id = patients[i].patient_id]_vars

\* C19: a record that is in patients.csv is still there (same patient_id, name
\* and date of birth) after every step, in every interleaving of the bookings.
C19_PatientsNeverDeleted ==
    [][\A i \in 1..Len(patients) :
          \E j \in 1..Len(patients') :
              /\ patients'[j].patient_id = patients[i].patient_id
              /\ patients'[j].name = patients[i].name
              /\ patients'[j].DOB = patients[i].DOB]_vars

\* the words of a normalized name
Tokens(name) == to_set(split(normalize_name(name)))

\* both dates parse, to the same date
SameDate(date1, date2) ==
    parse_date(date1) # NoDate /\ parse_date(date1) = parse_date(date2)

\* the rows that match a request exactly, and those that match it partially
ExactMatches(store, name, dob) ==
    {i \in 1..Len(store) : /\ normalize_name(store[i].name) = normalize_name(name)
                           /\ SameDate(store[i].DOB, dob)}
PartialMatches(store, name, dob) ==
    {i \in 1..Len(store) : /\ Cardinality(Tokens(store[i].name) \cap Tokens(name)) >= 2
                           /\ SameDate(store[i].DOB, dob)}

\* C21: when some record matches the request exactly, lookup_patient returns
\* the first such record in store order, even if an earlier record matches
\* partially; a partial match is returned only when no record matches exactly,
\* and then it is the first partially matching record.
C21_ExactPassFirst ==
    rq_phase = "done" =>
        LET E == ExactMatches(rq_store, rq_name, rq_dob)
            P == PartialMatches(rq_store, rq_name, rq_dob)
        IN  /\ E # {} => (rq_result \in E /\ \A i \in E : rq_result <= i)
            /\ (E = {} /\ P # {}) => (rq_result \in P /\ \A i \in P : rq_result <= i)
            /\ (E = {} /\ P = {}) => rq_result = 0

\* the exact match was returned although an earlier record matches partially
C21_Witness ==
    /\ rq_phase = "done"
    /\ rq_result \in ExactMatches(rq_store, rq_name, rq_dob)
    /\ \E i \in PartialMatches(rq_store, rq_name, rq_dob) :
          i < rq_result /\ i \notin ExactMatches(rq_store, rq_name, rq_dob)

\* C22: lookup_patient returns a record only if the record's date of birth
\* parses and equals the parsed requested date and the normalized names are
\* equal or share at least two words; a request of one word is never matched by
\* the fallback pass, and a date that does not parse, on either side, never
\* matches.
C22_MatchOnlyIf ==
    (rq_phase = "done" /\ rq_result # 0) =>
        LET p == rq_store[rq_result]
        IN  /\ parse_date(p.DOB) # NoDate
            /\ parse_date(rq_dob) # NoDate
            /\ parse_date(p.DOB) = parse_date(rq_dob)
            /\ \/ normalize_name(p.name) = normalize_name(rq_name)
               \/ Cardinality(Tokens(p.name) \cap Tokens(rq_name)) >= 2
            /\ Cardinality(Tokens(rq_name)) = 1
                  => normalize_name(p.name) = normalize_name(rq_name)

\* the fallback pass has returned a record whose name is not equal
C22_Witness ==
    /\ rq_phase = "done"
    /\ rq_result # 0
    /\ normalize_name(rq_store[rq_result].name) # normalize_name(rq_name)

\* C23: normalize_name applied to its own result gives that result again, and
\* the result has no leading, trailing or doubled space (no empty word), for
\* every name, names with a word made only of '.' or ',' included.
C23_NormalizeIdempotent ==
    rq_phase = "done" =>
        LET n == normalize_name(rq_name)
        IN  /\ normalize_name(n) = n
            /\ n # <<>> => (n[1] # " " /\ n[Len(n)] # " ")
            /\ \A i \in 1..(Len(n) - 1) : ~(n[i] = " " /\ n[i + 1] = " ")

\* C24: a booking that returns an appointment id for a New patient leaves
\* patients.csv with exactly one more record than before, the last one carrying
\* the request's name and date of birth and an empty visit history, and its
\* patient write did not fail; one for a Returning patient leaves the number of
\* patient records unchanged.
C24_NewPatientRecorded ==
    [][\A h \in history' \ history :
          h.returned # 0 =>
              IF h.is_returning
              THEN Len(patients') = Len(patients)
              ELSE /\ h.pat_ok
                   /\ Len(patients') = Len(patients) + 1
                   /\ patients'[Len(patients')].name = h.name
                   /\ patients'[Len(patients')].DOB = h.dob
                   /\ patients'[Len(patients')].visit_history = <<>>]_vars

\* the rows of appointments.xlsx that carry the given appointment id
RowsOfAppointment(df, id) ==
    {i \in 1..Len(df) : df[i].Appointment_ID = id}

\* C25: every appointment id book_appointment has returned has exactly one row
\* in appointments.xlsx, with Status Confirmed, in every state from the return
\* on, in every interleaving of the bookings (no fault is needed).
C25_AppointmentPersists ==
    faults = 0 =>
        \A h \in Successes :
            /\ Cardinality(RowsOfAppointment(appointments, h.appointment_id)) = 1
            /\ \A i \in RowsOfAppointment(appointments, h.appointment_id) :
                  /\ appointments[i].Status = "Confirmed"
                  /\ appointments[i].Patient_Name = h.name

\* C26: once no booking is in progress, patients.csv holds at most one record
\* for a name and date of birth, also when two bookings with the same new name
\* and date of birth ran at the same time (no fault is needed).
C26_NoDuplicatePatient ==
    (Quiescent /\ faults = 0) =>
        \A i, j \in 1..Len(patients) :
            (patients[i].name = patients[j].name /\ patients[i].DOB = patients[j].DOB)
                => i = j

\* C27: a submit that fails validation writes no appointment, changes no slot,
\* creates no patient, starts no booking or notification and leaves the
\* session's patient_data, form_submitted and appointment_booked as they were;
\* a submit goes on to the booking only with a form that has no error.
C27_InvalidSubmitNoEffect ==
    [][\A s \in Sessions :
          /\ (pc[s] = "form" /\ shown'[s] # shown[s] /\ shown'[s].kind = "validation")
                => UNCHANGED <<appointments, schedule, patients, session_state,
                               history, next_uuid, pc, local>>
          /\ (pc[s] = "form" /\ pc'[s] = "requery")
                => validate(form'[s]) = <<>>]_vars

\* a validation failure is on display while an appointment is on file
C27_Witness ==
    \E s \in Sessions : shown[s].kind = "validation" /\ appointments # <<>>

\* C28: in every session state, appointment_booked implies form_submitted, an
\* 'appointment' entry and a non-null appointment_id in patient_data; a reset
\* (the only step that leaves the confirmation, or changes the session state
\* while the form stays on display) sets both flags to false and patient_data
\* to empty in the same step.
C28_SessionFlags ==
    [][\A s \in Sessions :
          /\ session_state'[s].appointment_booked
                => /\ session_state'[s].form_submitted
                   /\ {"appointment", "appointment_id"} \subseteq
                          session_state'[s].patient_data.keys
                   /\ session_state'[s].patient_data.appointment # NoAppointment
                   /\ session_state'[s].patient_data.appointment_id # 0
          /\ \/ pc[s] = "confirmed" /\ pc'[s] # "confirmed"
             \/ session_state[s].appointment_booked /\ ~session_state'[s].appointment_booked
             \/ pc[s] = "form" /\ pc'[s] = "form" /\ session_state'[s] # session_state[s]
             => session_state'[s] = ClearedSession]_vars

\* a session is marked booked
C28_Witness ==
    \E s \in Sessions : session_state[s].appointment_booked

\* the rows of a report whose Report_Date is not the given date
OtherDays(rows, d) == SelectSeq(rows, LAMBDA r : report_date_parsed(r.Report_Date) # d)
\* the rows of a report whose Report_Date is the given date
ThisDay(rows, d) == SelectSeq(rows, LAMBDA r : report_date_parsed(r.Report_Date) = d)

\* C29: generate_daily_report run twice for the same date over the same
\* appointments.xlsx leaves admin_report.xlsx as one run left it; after a run
\* the rows of that date are one per appointment of that date, each appointment
\* id once, and the rows of other dates are those the file held before, in the
\* same order.
C29_DailyReportIdempotent ==
    /\ rp_phase = "twice" => admin_report = rp_once
    /\ rp_phase \in {"once", "twice"} =>
          LET today == ThisDay(admin_report.rows, rp_date)
              daily == SelectSeq(appointments, LAMBDA a : a.Date = rp_date)
          IN  /\ admin_report.exists
              /\ Len(today) = Len(daily)
              /\ \A i \in 1..Len(today) :
                    /\ today[i].Appointment_ID = daily[i].Appointment_ID
                    /\ today[i].Patient_Name = daily[i].Patient_Name
                    /\ today[i].Appointment_Date = rp_date
              /\ \A i, j \in 1..Len(today) :
                    today[i].Appointment_ID = today[j].Appointment_ID => i = j
              /\ OtherDays(admin_report.rows, rp_date) = OtherDays(rp_before.rows, rp_date)

\* the second run is done on a report that already held rows of the date, rows
\* of another date, and the date has appointments
C29_Witness ==
    /\ rp_phase = "twice"
    /\ ThisDay(rp_before.rows, rp_date) # <<>>
    /\ OtherDays(rp_before.rows, rp_date) # <<>>
    /\ ThisDay(admin_report.rows, rp_date) # <<>>

====
